---- MODULE Spec2Model ----
(***************************************************************************)
(* Model of the handlers of the bookkeeping server (server/src/handlers):  *)
(* the relational tables are the state, a call of a handler is one action, *)
(* and every call leaves its outcome in `result`.  Handlers run            *)
(* one after another, except in the last part, where the detail and        *)
(* posting handlers run a database statement at a time on two connections. *)
(*                                                                         *)
(* Money.  The handlers take JavaScript numbers and store them in          *)
(* numeric(15,2) columns.  Amounts handed to a handler are counted in      *)
(* units of 0.005 (half a cent), stored amounts in cents; ToNumeric is the *)
(* rounding the column applies, parseFloat reads a stored amount back.     *)
(* Sums are exact: binary floating-point error is not modelled.            *)
(***************************************************************************)
EXTENDS Integers, Sequences, FiniteSets, TLC

VARIABLES users, relations, accounts, headers, details,
          header_seq, detail_seq, result, generated,
          account_seq, companies, company_seq,
          inventory_groups, group_seq, inventory, inventory_seq, calls

\* the company table and the inventory tables, with their serial counters
companyTables == <<companies, company_seq>>
inventoryTables == <<inventory_groups, group_seq, inventory, inventory_seq>>

\* what no transaction handler touches when it runs as one step: the account
\* id counter, the company and inventory tables, and the calls in flight
catalogue == <<account_seq, companyTables, inventoryTables, calls>>

vars == <<users, relations, accounts, headers, details,
          header_seq, detail_seq, result, generated, catalogue>>

tables == <<users, relations, accounts, headers, details, header_seq, detail_seq,
            catalogue>>

--------------------------------------------------------------------------
(* Bounds of the model *)

\* largest number of header rows ever inserted
MaxHeaders == 1
\* largest number of detail rows ever inserted
MaxDetails == 2
\* largest amount a caller passes, in units of 0.005
MaxAmount == 2
\* largest id a caller passes where ids are drawn freely
MaxId == 1

--------------------------------------------------------------------------
(* Values *)

\* SQL NULL / JavaScript null in a nullable integer column
NULL == -1

\* input units (0.005) per cent: the columns keep two decimals
Cent == 2

\* the 0.01 of the two balance checks, in input units
Tolerance == 2

Abs(x) == IF x < 0 THEN -x ELSE x

\* JavaScript truthiness of a number | null
Truthy(x) == x # NULL /\ x # 0

\* a key of a Partial<...> input is present (not undefined)
Has(input, key) == key \in DOMAIN input

\* number.toString() stored into a numeric(15,2) column: rounded to cents,
\* ties away from zero (amounts are non-negative)
ToNumeric(x) == (2 * x + Cent) \div (2 * Cent)

\* parseFloat of a stored numeric(15,2) text, back in input units
parseFloat(c) == c * Cent

RECURSIVE SumSeq(_, _)
\* details.reduce((sum, detail) => sum + detail[key], 0) over an input list
SumSeq(s, key) == IF s = <<>> THEN 0 ELSE s[1][key] + SumSeq(Tail(s), key)

RECURSIVE SumRows(_, _, _)
\* rows.reduce((sum, detail) => sum + parseFloat(detail[key]), 0) over the
\* rows of the detail table ds with the ids in S
SumRows(ds, S, key) ==
    IF S = {} THEN 0
    ELSE LET i == CHOOSE j \in S : TRUE
         IN parseFloat(ds[i][key]) + SumRows(ds, S \ {i}, key)

\* select ... from transaction_details where header_id = headerId
DetailsOf(ds, headerId) == {i \in DOMAIN ds : ds[i].header_id = headerId}

\* delete from a table the rows with the ids in S
Without(t, S) == [i \in DOMAIN t \ S |-> t[i]]

\* the unique index on transaction_headers.nomor_transaksi rejects the value
\* for the row `self` (0 for a new row)
NomorTaken(nomor, self) ==
    \E h \in DOMAIN headers : h # self /\ headers[h].nomor_transaksi = nomor

\* what a call left behind: the handler, the error it threw ("ok" when it
\* returned), and whether it returned a truthy value (true, a row)
Outcome(op, err) == [op |-> op, err |-> err, ret |-> err = "ok"]

\* the handler returned false
ReturnsFalse(op) == [op |-> op, err |-> "ok", ret |-> FALSE]

\* the handler throws before it has written anything
Throw(op, err) == result' = Outcome(op, err) /\ UNCHANGED tables

Ok(op) == result' = Outcome(op, "ok")

--------------------------------------------------------------------------
(* Dates and transaction numbers *)

\* A Date is modelled by what the handlers read of it: [year, month], with
\* year = getFullYear() and month = getMonth() + 1.

\* A nomor_transaksi is text; what the handlers can tell about it is whether
\* it ends in '-' and digits.  [stem, tail]: the text is stem when tail is
\* empty (and stem does not end that way), else stem, '-', the digits of tail.
Nomor(stem, tail) == [stem |-> stem, tail |-> tail]

RECURSIVE ToDigits(_)
\* n.toString() for n >= 0, as a sequence of decimal digits
ToDigits(n) == IF n < 10 THEN <<n>> ELSE Append(ToDigits(n \div 10), n % 10)

RECURSIVE padStart(_, _)
\* digits.padStart(len, '0')
padStart(ds, len) == IF Len(ds) >= len THEN ds ELSE padStart(<<0>> \o ds, len)

RECURSIVE parseInt(_)
\* parseInt of a sequence of decimal digits
parseInt(ds) ==
    IF ds = <<>> THEN 0
    ELSE 10 * parseInt(SubSeq(ds, 1, Len(ds) - 1)) + ds[Len(ds)]

\* (n).toString().padStart(2, '0') for a month number 1..12
Month2(n) == IF n < 10 THEN "0" \o ToString(n) ELSE ToString(n)

\* `${tipe}-${year}${month}`
Prefix(tipe, tanggal) == tipe \o "-" \o ToString(tanggal.year) \o Month2(tanggal.month)

--------------------------------------------------------------------------
(* Initial state: the master data the handlers' callers start from, one    *)
(* user, one relation, one account, and no transaction, company, inventory *)
(* group or inventory item; no call is in flight.                          *)

\* the two connections on which calls can be in flight at the same time
Procs == {1, 2}

\* a connection with no call in flight
\* (op: the handler called; pc: the statement it issues next; id, input: its
\* arguments; headerId, totalDebit, totalKredit, found: its local variables)
Idle == [op |-> "none", pc |-> "idle", id |-> 0, input |-> [debit |-> 0, kredit |-> 0],
         headerId |-> 0, totalDebit |-> 0, totalKredit |-> 0, found |-> TRUE]

Init ==
    /\ users = (1 :> [is_active |-> TRUE])
    /\ relations = {1}
    /\ accounts = (1 :> [kode |-> "A1", parent_id |-> NULL])
    /\ account_seq = 2
    /\ companies = <<>>
    /\ company_seq = 1
    /\ inventory_groups = <<>>
    /\ group_seq = 1
    /\ inventory = <<>>
    /\ inventory_seq = 1
    /\ calls = [p \in Procs |-> Idle]
    /\ headers = <<>>
    /\ details = <<>>
    /\ header_seq = 1
    /\ detail_seq = 1
    /\ result = Outcome("none", "ok")
    /\ generated = Nomor("", <<>>)

--------------------------------------------------------------------------
(* Utility functions of handlers/transactions.ts *)

\* validateTransactionBalance with the comparison of createCompleteTransaction:
\* a difference of exactly 0.01 passes
validateTransactionBalance_AtMost(ds, headerId) ==
    LET rows == DetailsOf(ds, headerId)
    IN Abs(SumRows(ds, rows, "debit") - SumRows(ds, rows, "kredit")) <= Tolerance

\* validateTransactionBalance(headerId), read from the detail table ds
validateTransactionBalance(ds, headerId) ==
    LET rows == DetailsOf(ds, headerId)
        totalDebit == SumRows(ds, rows, "debit")
        totalKredit == SumRows(ds, rows, "kredit")
    IN Abs(totalDebit - totalKredit) < Tolerance

\* updateHeaderTotals(headerId): the header table after the update, given the
\* header table hs and the detail table ds the handler has just written
updateHeaderTotals(hs, ds, headerId) ==
    LET rows == DetailsOf(ds, headerId)
        totalDebit == SumRows(ds, rows, "debit")
        totalKredit == SumRows(ds, rows, "kredit")
    IN IF headerId \in DOMAIN hs
       THEN [hs EXCEPT ![headerId].total_debit = ToNumeric(totalDebit),
                       ![headerId].total_kredit = ToNumeric(totalKredit)]
       ELSE hs

\* the row inserted into transaction_details for one input line
DetailRow(headerId, d) ==
    [header_id |-> headerId, account_id |-> d.account_id,
     debit |-> ToNumeric(d.debit), kredit |-> ToNumeric(d.kredit)]

\* the row inserted into transaction_headers
HeaderRow(h, totalDebit, totalKredit) ==
    [nomor_transaksi |-> h.nomor_transaksi, tanggal |-> h.tanggal, tipe |-> h.tipe,
     total_debit |-> ToNumeric(totalDebit), total_kredit |-> ToNumeric(totalKredit),
     relation_id |-> h.relation_id, user_id |-> h.user_id, is_posted |-> FALSE]

--------------------------------------------------------------------------
(* Transaction creation *)

createCompleteTransaction(input) ==
    LET op == "createCompleteTransaction"
        n == Len(input.details)
        totalDebit == SumSeq(input.details, "debit")
        totalKredit == SumSeq(input.details, "kredit")
        withHeader == headers @@ (header_seq :> HeaderRow(input.header, totalDebit, totalKredit))
    IN /\ UNCHANGED <<users, relations, accounts, generated, catalogue>>
       /\ IF Abs(totalDebit - totalKredit) > Tolerance
          THEN Throw(op, "Total debit must equal total kredit")
          ELSE IF input.header.user_id \notin DOMAIN users
          THEN Throw(op, "User not found")
          ELSE IF Truthy(input.header.relation_id) /\ input.header.relation_id \notin relations
          THEN Throw(op, "Relation not found")
          ELSE IF \E i \in 1..n : input.details[i].account_id \notin DOMAIN accounts
          THEN Throw(op, "Account with ID not found")
          ELSE IF NomorTaken(input.header.nomor_transaksi, 0)
          THEN Throw(op, "duplicate key value violates unique constraint")
          ELSE IF n = 0
          THEN \* the header is in; insert(...).values([]) throws
               /\ headers' = withHeader
               /\ header_seq' = header_seq + 1
               /\ UNCHANGED <<details, detail_seq>>
               /\ result' = Outcome(op, "values() must be called with at least one value")
          ELSE /\ headers' = withHeader
               /\ header_seq' = header_seq + 1
               /\ details' = details @@
                     [i \in detail_seq..(detail_seq + n - 1) |->
                         DetailRow(header_seq, input.details[i - detail_seq + 1])]
               /\ detail_seq' = detail_seq + n
               /\ Ok(op)

createTransactionHeader(input) ==
    LET op == "createTransactionHeader"
    IN /\ UNCHANGED <<users, relations, accounts, generated, catalogue>>
       /\ IF input.user_id \notin DOMAIN users
          THEN Throw(op, "User not found")
          ELSE IF Truthy(input.relation_id) /\ input.relation_id \notin relations
          THEN Throw(op, "Relation not found")
          ELSE IF NomorTaken(input.nomor_transaksi, 0)
          THEN Throw(op, "duplicate key value violates unique constraint")
          ELSE /\ headers' = headers @@ (header_seq :> HeaderRow(input, 0, 0))
               /\ header_seq' = header_seq + 1
               /\ UNCHANGED <<details, detail_seq>>
               /\ Ok(op)

\* addTransactionDetail without the is_posted check
addTransactionDetail_NoPostedCheck(input) ==
    LET op == "addTransactionDetail"
        inserted == details @@ (detail_seq :> DetailRow(input.header_id, input))
    IN /\ UNCHANGED <<users, relations, accounts, generated, catalogue>>
       /\ IF input.header_id \notin DOMAIN headers
          THEN Throw(op, "Transaction header not found")
          ELSE IF input.account_id \notin DOMAIN accounts
          THEN Throw(op, "Account not found")
          ELSE /\ details' = inserted
               /\ detail_seq' = detail_seq + 1
               /\ headers' = updateHeaderTotals(headers, inserted, input.header_id)
               /\ UNCHANGED header_seq
               /\ Ok(op)

addTransactionDetail(input) ==
    LET op == "addTransactionDetail"
        inserted == details @@ (detail_seq :> DetailRow(input.header_id, input))
    IN /\ UNCHANGED <<users, relations, accounts, generated, catalogue>>
       /\ IF input.header_id \notin DOMAIN headers
          THEN Throw(op, "Transaction header not found")
          ELSE IF headers[input.header_id].is_posted
          THEN Throw(op, "Cannot add detail to posted transaction")
          ELSE IF input.account_id \notin DOMAIN accounts
          THEN Throw(op, "Account not found")
          ELSE /\ details' = inserted
               /\ detail_seq' = detail_seq + 1
               /\ headers' = updateHeaderTotals(headers, inserted, input.header_id)
               /\ UNCHANGED header_seq
               /\ Ok(op)

--------------------------------------------------------------------------
(* Transaction updates *)

\* .set(updateData): the keys present in the input overwrite the row's
SetKeys(row, input, keys) ==
    [k \in DOMAIN row |-> IF k \in keys /\ Has(input, k) THEN input[k] ELSE row[k]]

updateTransactionHeader(id, input) ==
    LET op == "updateTransactionHeader"
        updated == SetKeys(headers[id], input,
                     {"nomor_transaksi", "tanggal", "tipe", "relation_id", "user_id"})
    IN /\ UNCHANGED <<users, relations, accounts, generated, catalogue>>
       /\ IF id \notin DOMAIN headers
          THEN Throw(op, "Transaction not found")
          ELSE IF headers[id].is_posted
          THEN Throw(op, "Cannot update posted transaction")
          ELSE IF Has(input, "user_id") /\ Truthy(input.user_id)
                  /\ input.user_id \notin DOMAIN users
          THEN Throw(op, "User not found")
          ELSE IF Has(input, "relation_id") /\ Truthy(input.relation_id)
                  /\ input.relation_id \notin relations
          THEN Throw(op, "Relation not found")
          ELSE IF NomorTaken(updated.nomor_transaksi, id)
          THEN Throw(op, "duplicate key value violates unique constraint")
          ELSE /\ headers' = [headers EXCEPT ![id] = updated]
               /\ UNCHANGED <<details, header_seq, detail_seq>>
               /\ Ok(op)

\* the detail row after .set(updateData): amounts go through toString() into
\* the numeric columns
SetDetail(row, input) ==
    [header_id |-> row.header_id,
     account_id |-> IF Has(input, "account_id") THEN input.account_id ELSE row.account_id,
     debit |-> IF Has(input, "debit") THEN ToNumeric(input.debit) ELSE row.debit,
     kredit |-> IF Has(input, "kredit") THEN ToNumeric(input.kredit) ELSE row.kredit]

\* the inner join of a detail row with its header finds a row
Joined(id) == id \in DOMAIN details /\ details[id].header_id \in DOMAIN headers

updateTransactionDetail(id, input) ==
    LET op == "updateTransactionDetail"
        written == [details EXCEPT ![id] = SetDetail(details[id], input)]
    IN /\ UNCHANGED <<users, relations, accounts, generated, catalogue>>
       /\ IF ~Joined(id)
          THEN Throw(op, "Transaction detail not found")
          ELSE IF headers[details[id].header_id].is_posted
          THEN Throw(op, "Cannot update detail of posted transaction")
          ELSE IF Has(input, "account_id") /\ Truthy(input.account_id)
                  /\ input.account_id \notin DOMAIN accounts
          THEN Throw(op, "Account not found")
          ELSE /\ details' = written
               /\ headers' = updateHeaderTotals(headers, written, details[id].header_id)
               /\ UNCHANGED <<header_seq, detail_seq>>
               /\ Ok(op)

--------------------------------------------------------------------------
(* Posting *)

\* postTransaction without the balance validation
postTransaction_NoValidate(id) ==
    LET op == "postTransaction"
    IN /\ UNCHANGED <<users, relations, accounts, generated, catalogue>>
       /\ IF id \notin DOMAIN headers
          THEN Throw(op, "Transaction not found")
          ELSE /\ headers' = [headers EXCEPT ![id].is_posted = TRUE]
               /\ UNCHANGED <<details, header_seq, detail_seq>>
               /\ Ok(op)

postTransaction(id) ==
    LET op == "postTransaction"
    IN /\ UNCHANGED <<users, relations, accounts, generated, catalogue>>
       /\ IF ~validateTransactionBalance(details, id)
          THEN Throw(op, "Transaction is not balanced")
          ELSE IF id \notin DOMAIN headers
          THEN Throw(op, "Transaction not found")
          ELSE /\ headers' = [headers EXCEPT ![id].is_posted = TRUE]
               /\ UNCHANGED <<details, header_seq, detail_seq>>
               /\ Ok(op)

unpostTransaction(id) ==
    LET op == "unpostTransaction"
    IN /\ UNCHANGED <<users, relations, accounts, generated, catalogue>>
       /\ IF id \notin DOMAIN headers
          THEN Throw(op, "Transaction not found")
          ELSE /\ headers' = [headers EXCEPT ![id].is_posted = FALSE]
               /\ UNCHANGED <<details, header_seq, detail_seq>>
               /\ Ok(op)

--------------------------------------------------------------------------
(* Deletion *)

deleteTransactionDetail(id) ==
    LET op == "deleteTransactionDetail"
        remaining == Without(details, {id})
    IN /\ UNCHANGED <<users, relations, accounts, generated, catalogue>>
       /\ IF ~Joined(id)
          THEN Throw(op, "Transaction detail not found")
          ELSE IF headers[details[id].header_id].is_posted
          THEN Throw(op, "Cannot delete detail from posted transaction")
          ELSE /\ details' = remaining
               /\ headers' = updateHeaderTotals(headers, remaining, details[id].header_id)
               /\ UNCHANGED <<header_seq, detail_seq>>
               /\ Ok(op)

deleteTransaction(id) ==
    LET op == "deleteTransaction"
    IN /\ UNCHANGED <<users, relations, accounts, generated, catalogue>>
       /\ IF id \notin DOMAIN headers
          THEN Throw(op, "Transaction not found")
          ELSE IF headers[id].is_posted
          THEN Throw(op, "Cannot delete posted transaction")
          ELSE /\ details' = Without(details, DetailsOf(details, id))
               /\ headers' = Without(headers, {id})
               /\ UNCHANGED <<header_seq, detail_seq>>
               /\ Ok(op)

--------------------------------------------------------------------------
(* Transaction numbers *)

\* the forEach of generateTransactionNumber over the rows with ids in S:
\* maxSequence = Math.max(maxSequence, parseInt(match[1])) where the number
\* matches /-(\d+)$/
RECURSIVE MaxSequence(_, _)
MaxSequence(S, maxSequence) ==
    IF S = {} THEN maxSequence
    ELSE LET h == CHOOSE x \in S : TRUE
             tail == headers[h].nomor_transaksi.tail
             sequence == parseInt(tail)
         IN MaxSequence(S \ {h},
                        IF tail # <<>> /\ sequence > maxSequence THEN sequence
                        ELSE maxSequence)

\* the rows kept when only getMonth() is compared
sameMonthTransactions_AnyYear(tipe, tanggal) ==
    {h \in DOMAIN headers :
        /\ headers[h].tipe = tipe
        /\ headers[h].tanggal.month = tanggal.month}

\* the rows generateTransactionNumber keeps: same tipe, same year and month
sameMonthTransactions(tipe, tanggal) ==
    {h \in DOMAIN headers :
        /\ headers[h].tipe = tipe
        /\ headers[h].tanggal.year = tanggal.year
        /\ headers[h].tanggal.month = tanggal.month}

generateTransactionNumber(tipe, tanggal) ==
    LET prefix == Prefix(tipe, tanggal)
        maxSequence == MaxSequence(sameMonthTransactions(tipe, tanggal), 0)
        nextSequence == padStart(ToDigits(maxSequence + 1), 3)
    IN /\ generated' = Nomor(prefix, nextSequence)
       /\ result' = Outcome("generateTransactionNumber", "ok")
       /\ UNCHANGED tables

--------------------------------------------------------------------------
(* The ledger: every transaction handler, called one after another by a    *)
(* caller that passes valid master-data ids and any amounts.               *)

Amounts == 0..MaxAmount

\* two free-text transaction numbers
LedgerNomors == {Nomor("A", <<>>), Nomor("B", <<>>)}

LedgerHeaders ==
    [nomor_transaksi : LedgerNomors, tanggal : {[year |-> 2023, month |-> 12]},
     tipe : {"JURNAL_UMUM"}, relation_id : {NULL}, user_id : {1}]

\* a journal line is a debit line or a credit line
LedgerLines ==
    {[account_id |-> 1, debit |-> a, kredit |-> 0] : a \in Amounts} \cup
    {[account_id |-> 1, debit |-> 0, kredit |-> a] : a \in Amounts}

\* the detail lists that still fit the detail table
LedgerLists == UNION {[1..n -> LedgerLines] : n \in 0..(MaxDetails + 1 - detail_seq)}

\* the callers stop inserting when the tables have reached the bounds
HeaderRoom == header_seq <= MaxHeaders
DetailRoom == detail_seq <= MaxDetails

CreateCompleteTransaction ==
    /\ HeaderRoom
    /\ \E h \in LedgerHeaders, ds \in LedgerLists :
          createCompleteTransaction([header |-> h, details |-> ds])

CreateTransactionHeader ==
    /\ HeaderRoom
    /\ \E h \in LedgerHeaders : createTransactionHeader(h)

AddTransactionDetail ==
    /\ DetailRoom
    /\ \E id \in 1..MaxHeaders, d \in LedgerLines :
        addTransactionDetail([header_id |-> id, account_id |-> d.account_id,
                              debit |-> d.debit, kredit |-> d.kredit])

UpdateTransactionHeader ==
    \E id \in 1..MaxHeaders, n \in LedgerNomors :
        updateTransactionHeader(id, [nomor_transaksi |-> n])

UpdateTransactionDetail ==
    \E id \in 1..MaxDetails, d \in LedgerLines :
        updateTransactionDetail(id, [debit |-> d.debit, kredit |-> d.kredit])

PostTransaction == \E id \in 1..MaxHeaders : postTransaction(id)

UnpostTransaction == \E id \in 1..MaxHeaders : unpostTransaction(id)

DeleteTransactionDetail == \E id \in 1..MaxDetails : deleteTransactionDetail(id)

DeleteTransaction == \E id \in 1..MaxHeaders : deleteTransaction(id)

Next ==
    \/ CreateTransactionHeader
    \/ CreateCompleteTransaction
    \/ AddTransactionDetail
    \/ UpdateTransactionHeader
    \/ UpdateTransactionDetail
    \/ PostTransaction
    \/ UnpostTransaction
    \/ DeleteTransactionDetail
    \/ DeleteTransaction

Spec == Init /\ [][Next]_vars

--------------------------------------------------------------------------
(* Properties of the ledger *)

\* stored debit and kredit sums of a header's detail rows, in cents
DebitOf(id) == SumRows(details, DetailsOf(details, id), "debit") \div Cent
KreditOf(id) == SumRows(details, DetailsOf(details, id), "kredit") \div Cent

Posted(id) == id \in DOMAIN headers /\ headers[id].is_posted

\* the step threw and wrote neither a header row nor a detail row
Rejected == result'.err # "ok" /\ headers' = headers /\ details' = details

\* C1: while a header is posted, addTransactionDetail, updateTransactionHeader,
\* updateTransactionDetail, deleteTransactionDetail and deleteTransaction that
\* target it (or one of its details) throw and leave the header rows and the
\* detail rows as they were.
C1_PostedIsImmutable ==
    [][ /\ \A id \in DOMAIN headers : Posted(id) =>
            /\ \A d \in LedgerLines :
                 (/\ result'.op = "addTransactionDetail"
                  /\ addTransactionDetail([header_id |-> id, account_id |-> d.account_id,
                                           debit |-> d.debit, kredit |-> d.kredit]))
                 => Rejected
            /\ \A n \in LedgerNomors :
                 (/\ result'.op = "updateTransactionHeader"
                  /\ updateTransactionHeader(id, [nomor_transaksi |-> n]))
                 => Rejected
            /\ (result'.op = "deleteTransaction" /\ deleteTransaction(id)) => Rejected
        /\ \A i \in DOMAIN details : Posted(details[i].header_id) =>
            /\ \A d \in LedgerLines :
                 (/\ result'.op = "updateTransactionDetail"
                  /\ updateTransactionDetail(i, [debit |-> d.debit, kredit |-> d.kredit]))
                 => Rejected
            /\ (result'.op = "deleteTransactionDetail" /\ deleteTransactionDetail(i))
               => Rejected
      ]_vars

\* C1 witness: a detail update was refused on a posted transaction with details.
C1_Witness ==
    /\ result = Outcome("updateTransactionDetail", "Cannot update detail of posted transaction")
    /\ \E id \in DOMAIN headers : Posted(id) /\ DetailsOf(details, id) # {}

C3_WitnessPosted ==
    /\ result = Outcome("postTransaction", "ok")
    /\ \E id \in DOMAIN headers : headers[id].is_posted /\ DebitOf(id) > 0

\* C4: createCompleteTransaction throws 'Total debit must equal total kredit'
\* and adds no row for every input whose debit sum differs from its kredit sum.
C4_UnbalancedInputRejected ==
    [][ \A h \in LedgerHeaders, ds \in LedgerLists :
          (/\ SumSeq(ds, "debit") # SumSeq(ds, "kredit")
           /\ createCompleteTransaction([header |-> h, details |-> ds]))
          => /\ result'.err = "Total debit must equal total kredit"
             /\ headers' = headers /\ details' = details
      ]_vars

\* C5: every header's total_debit and total_kredit are the sums of debit and
\* kredit over its detail rows.
C5_TotalsAreSums ==
    \A id \in DOMAIN headers :
        /\ headers[id].total_debit = DebitOf(id)
        /\ headers[id].total_kredit = KreditOf(id)

\* C6: createCompleteTransaction either persists the header with all input
\* details, or fails and leaves no new header row and no new detail row.
C6_CreateIsAtomic ==
    [][ \A h \in LedgerHeaders, ds \in LedgerLists :
          createCompleteTransaction([header |-> h, details |-> ds]) =>
            \/ /\ result'.err = "ok"
               /\ DOMAIN headers' = DOMAIN headers \cup {header_seq}
               /\ Cardinality(DOMAIN details' \ DOMAIN details) = Len(ds)
            \/ Rejected
      ]_vars

\* C7: every posted transaction has at least one detail line.
C7_PostedHasDetails ==
    \A id \in DOMAIN headers : headers[id].is_posted => DetailsOf(details, id) # {}

--------------------------------------------------------------------------
(* Master-data deletion (handlers/relations.ts, users.ts, accounts.ts) *)

deleteRelation(id) ==
    LET op == "deleteRelation"
    IN /\ UNCHANGED <<users, accounts, headers, details, header_seq, detail_seq, generated, catalogue>>
       /\ IF \E h \in DOMAIN headers : headers[h].relation_id = id
          THEN /\ result' = Outcome(op, "Cannot delete relation: it has associated transactions")
               /\ UNCHANGED relations
          ELSE /\ relations' = relations \ {id}
               /\ result' = IF id \in relations THEN Outcome(op, "ok") ELSE ReturnsFalse(op)

deleteUser(id) ==
    LET op == "deleteUser"
    IN /\ UNCHANGED <<relations, accounts, headers, details, header_seq, detail_seq, generated, catalogue>>
       /\ IF \E h \in DOMAIN headers : headers[h].user_id = id
          THEN /\ result' = Outcome(op, "Cannot delete user with existing transactions")
               /\ UNCHANGED users
          ELSE IF id \notin DOMAIN users
          THEN /\ result' = ReturnsFalse(op)
               /\ UNCHANGED users
          ELSE /\ users' = [users EXCEPT ![id].is_active = FALSE]
               /\ result' = Outcome(op, "ok")

\* getAccountById(id) !== null
getAccountById(id) == id \in DOMAIN accounts

\* deleteAccount without the check for child accounts
deleteAccount_NoChildCheck(id) ==
    LET op == "deleteAccount"
    IN /\ UNCHANGED <<users, relations, headers, details, header_seq, detail_seq, generated, catalogue>>
       /\ IF ~getAccountById(id)
          THEN /\ result' = Outcome(op, "Account does not exist")
               /\ UNCHANGED accounts
          ELSE IF \E d \in DOMAIN details : details[d].account_id = id
          THEN /\ result' = Outcome(op, "Cannot delete account that has transaction records")
               /\ UNCHANGED accounts
          ELSE /\ accounts' = Without(accounts, {id})
               /\ result' = Outcome(op, "ok")

deleteAccount(id) ==
    LET op == "deleteAccount"
    IN /\ UNCHANGED <<users, relations, headers, details, header_seq, detail_seq, generated, catalogue>>
       /\ IF ~getAccountById(id)
          THEN /\ result' = Outcome(op, "Account does not exist")
               /\ UNCHANGED accounts
          ELSE IF \E a \in DOMAIN accounts : accounts[a].parent_id = id
          THEN /\ result' = Outcome(op, "Cannot delete account that has child accounts")
               /\ UNCHANGED accounts
          ELSE IF \E d \in DOMAIN details : details[d].account_id = id
          THEN /\ result' = Outcome(op, "Cannot delete account that has transaction records")
               /\ UNCHANGED accounts
          ELSE /\ accounts' = Without(accounts, {id})
               /\ result' = Outcome(op, "ok")

--------------------------------------------------------------------------
(* References: the transaction handlers called with any integer ids       *)
(* 0..MaxId (0 is never the id of a row) and zero amounts, together with   *)
(* the handlers that delete master data.                                   *)

Ids == 0..MaxId

RefHeaders ==
    [nomor_transaksi : LedgerNomors, tanggal : {[year |-> 2023, month |-> 12]},
     tipe : {"JURNAL_UMUM"}, relation_id : Ids \cup {NULL}, user_id : Ids]

RefLines == [account_id : Ids, debit : {0}, kredit : {0}]

RefLists == UNION {[1..n -> RefLines] : n \in 0..(MaxDetails + 1 - detail_seq)}

RefCreateTransactionHeader ==
    /\ HeaderRoom
    /\ \E h \in RefHeaders : createTransactionHeader(h)

RefCreateCompleteTransaction ==
    /\ HeaderRoom
    /\ \E h \in RefHeaders, ds \in RefLists :
          createCompleteTransaction([header |-> h, details |-> ds])

RefUpdateTransactionHeader ==
    \E id \in 1..MaxHeaders, x \in Ids :
        \/ updateTransactionHeader(id, [user_id |-> x])
        \/ updateTransactionHeader(id, [relation_id |-> x])
        \/ updateTransactionHeader(id, [relation_id |-> NULL])

RefAddTransactionDetail ==
    /\ DetailRoom
    /\ \E id \in 1..MaxHeaders, d \in RefLines :
        addTransactionDetail([header_id |-> id, account_id |-> d.account_id,
                              debit |-> d.debit, kredit |-> d.kredit])

RefUpdateTransactionDetail ==
    \E id \in 1..MaxDetails, x \in Ids : updateTransactionDetail(id, [account_id |-> x])

DeleteRelation == \E id \in Ids : deleteRelation(id)

DeleteUser == \E id \in Ids : deleteUser(id)

DeleteAccount == \E id \in Ids : deleteAccount(id)

NextRefs ==
    \/ RefCreateTransactionHeader
    \/ RefCreateCompleteTransaction
    \/ RefUpdateTransactionHeader
    \/ RefAddTransactionDetail
    \/ RefUpdateTransactionDetail
    \/ DeleteTransaction
    \/ DeleteRelation
    \/ DeleteUser
    \/ DeleteAccount

SpecRefs == Init /\ [][NextRefs]_vars

\* C8: every header's user_id is the id of an existing user and its
\* relation_id is null or the id of an existing relation.
C8_HeaderReferencesExist ==
    \A h \in DOMAIN headers :
        /\ headers[h].user_id \in DOMAIN users
        /\ headers[h].relation_id = NULL \/ headers[h].relation_id \in relations

\* C9: every detail's account_id is the id of an existing account.
C9_DetailAccountExists ==
    \A d \in DOMAIN details : details[d].account_id \in DOMAIN accounts

--------------------------------------------------------------------------
(* Numbering: headers of two types, in two months of one year and the same *)
(* month of the next, numbered by the caller with free text or with the    *)
(* number generateTransactionNumber returned last for that type and month. *)

\* largest number of header rows ever inserted when numbering
MaxNumbered == 2

\* 'INV', 'INV-9', 'INV-999'
NumNomors == {Nomor("INV", <<>>), Nomor("INV", <<9>>), Nomor("INV", <<9, 9, 9>>)}

\* the (tipe, tanggal) pairs the callers use
NumKinds ==
    {<<"JURNAL_UMUM", [year |-> 2023, month |-> 12]>>,
     <<"JURNAL_UMUM", [year |-> 2024, month |-> 1]>>,
     <<"JURNAL_UMUM", [year |-> 2024, month |-> 12]>>,
     <<"JURNAL_KOREKSI", [year |-> 2023, month |-> 12]>>}

\* the number returned last, for a caller that asked for this tipe and tanggal
Returned(tipe, tanggal) ==
    IF generated.stem = Prefix(tipe, tanggal) THEN {generated} ELSE {}

NumCreateTransactionHeader ==
    /\ header_seq <= MaxNumbered
    /\ \E k \in NumKinds :
          \E n \in NumNomors \cup Returned(k[1], k[2]) :
             createTransactionHeader([nomor_transaksi |-> n, tanggal |-> k[2], tipe |-> k[1],
                                      relation_id |-> NULL, user_id |-> 1])

GenerateTransactionNumber ==
    \E k \in NumKinds : generateTransactionNumber(k[1], k[2])

NumDeleteTransaction == \E id \in 1..MaxNumbered : deleteTransaction(id)

NextNum ==
    \/ NumCreateTransactionHeader
    \/ GenerateTransactionNumber
    \/ NumDeleteTransaction

SpecNum == Init /\ [][NextNum]_vars

RECURSIVE DigitsValue(_)
\* the number a sequence of decimal digits writes
DigitsValue(ds) ==
    IF ds = <<>> THEN 0 ELSE ds[1] * 10 ^ (Len(ds) - 1) + DigitsValue(Tail(ds))

\* '<tipe>-<YYYY><MM>' written out for the pairs of NumKinds
ExpectedStem(k) ==
    CASE k = <<"JURNAL_UMUM", [year |-> 2023, month |-> 12]>> -> "JURNAL_UMUM-202312"
      [] k = <<"JURNAL_UMUM", [year |-> 2024, month |-> 1]>> -> "JURNAL_UMUM-202401"
      [] k = <<"JURNAL_UMUM", [year |-> 2024, month |-> 12]>> -> "JURNAL_UMUM-202412"
      [] k = <<"JURNAL_KOREKSI", [year |-> 2023, month |-> 12]>> -> "JURNAL_KOREKSI-202312"

\* C10: generateTransactionNumber(tipe, tanggal) returns '<tipe>-<YYYY><MM>-<NNN>'
\* with NNN, zero-padded to three digits, one more than the largest trailing
\* '-<digits>' number among the numbers of the existing headers of that tipe in
\* that year and month (0 when there is none): 001 for the first of a type in a
\* month, 002 once 001 is used.
C10_GeneratedNumber ==
    [][ \A k \in NumKinds :
          (result'.op = "generateTransactionNumber" /\ generateTransactionNumber(k[1], k[2])) =>
          LET same == {h \in DOMAIN headers :
                          headers[h].tipe = k[1] /\ headers[h].tanggal = k[2]}
              nums == {DigitsValue(headers[h].nomor_transaksi.tail) :
                          h \in {x \in same : headers[x].nomor_transaksi.tail # <<>>}}
              largest == IF nums = {} THEN 0
                         ELSE CHOOSE m \in nums : \A n \in nums : n <= m
              NNN == generated'.tail
          IN /\ generated'.stem = ExpectedStem(k)
             /\ Len(NNN) >= 3
             /\ Len(NNN) > 3 => NNN[1] # 0
             /\ DigitsValue(NNN) = largest + 1
             /\ same = {} => NNN = <<0, 0, 1>>
             /\ (/\ same # {}
                 /\ \A h \in same :
                      headers[h].nomor_transaksi = Nomor(ExpectedStem(k), <<0, 0, 1>>))
                => NNN = <<0, 0, 2>>
      ]_vars

\* C10 witness: with JURNAL_UMUM-202312-001 in use in December 2023 and another
\* JURNAL_UMUM header in another month, the number returned is
\* JURNAL_UMUM-202312-002.
C10_Witness ==
    /\ result.op = "generateTransactionNumber"
    /\ generated = Nomor("JURNAL_UMUM-202312", <<0, 0, 2>>)
    /\ \E h \in DOMAIN headers :
          /\ headers[h].nomor_transaksi = Nomor("JURNAL_UMUM-202312", <<0, 0, 1>>)
          /\ headers[h].tipe = "JURNAL_UMUM"
          /\ headers[h].tanggal = [year |-> 2023, month |-> 12]
    /\ \E h \in DOMAIN headers :
          headers[h].tipe = "JURNAL_UMUM" /\ headers[h].tanggal.month # 12

\* C10 witness of the padding: after INV-9 the number returned ends in 010, and
\* after INV-999 in 1000.
C10_WitnessPadding ==
    /\ result.op = "generateTransactionNumber"
    /\ generated.tail \in {<<0, 1, 0>>, <<1, 0, 0, 0>>}

--------------------------------------------------------------------------
(* Renumbering: the numbering callers, who also correct the date or the    *)
(* type of a header they have created.                                     *)

NumUpdateTransactionHeader ==
    \E id \in 1..MaxNumbered, k \in NumKinds :
        updateTransactionHeader(id, [tanggal |-> k[2], tipe |-> k[1]])

NextUniq ==
    \/ NumCreateTransactionHeader
    \/ GenerateTransactionNumber
    \/ NumUpdateTransactionHeader
    \/ NumDeleteTransaction

SpecUniq == Init /\ [][NextUniq]_vars

\* C11: the number generateTransactionNumber has just returned differs from
\* the nomor_transaksi of every existing header, so that a header created with
\* it next does not fail on the unique constraint.
C11_GeneratedIsUnique ==
    result.op = "generateTransactionNumber" => ~NomorTaken(generated, 0)

--------------------------------------------------------------------------
(* Chart of accounts (handlers/accounts.ts) *)

\* the unique index on accounts.kode rejects the value for the row `self`
\* (0 for a new row)
KodeTaken(t, kode, self) == \E a \in DOMAIN t : a # self /\ t[a].kode = kode

\* what the account handlers leave alone
besideAccounts ==
    <<users, relations, headers, details, header_seq, detail_seq, generated,
      companyTables, inventoryTables, calls>>

createAccount(input) ==
    LET op == "createAccount"
    IN /\ UNCHANGED besideAccounts
       /\ IF Truthy(input.parent_id) /\ input.parent_id \notin DOMAIN accounts
          THEN Throw(op, "Parent account does not exist")
          ELSE IF KodeTaken(accounts, input.kode, 0)
          THEN Throw(op, "duplicate key value violates unique constraint")
          ELSE /\ accounts' = accounts @@
                     (account_seq :> [kode |-> input.kode, parent_id |-> input.parent_id])
               /\ account_seq' = account_seq + 1
               /\ Ok(op)

updateAccount(id, input) ==
    LET op == "updateAccount"
        updated == SetKeys(accounts[id], input, {"kode", "parent_id"})
    IN /\ UNCHANGED besideAccounts
       /\ IF ~getAccountById(id)
          THEN Throw(op, "Account does not exist")
          ELSE IF Has(input, "parent_id") /\ Truthy(input.parent_id)
                  /\ input.parent_id \notin DOMAIN accounts
          THEN Throw(op, "Parent account does not exist")
          ELSE IF Has(input, "parent_id") /\ Truthy(input.parent_id)
                  /\ input.parent_id = id
          THEN Throw(op, "Account cannot be its own parent")
          ELSE IF KodeTaken(accounts, updated.kode, id)
          THEN Throw(op, "duplicate key value violates unique constraint")
          ELSE /\ accounts' = [accounts EXCEPT ![id] = updated]
               /\ UNCHANGED account_seq
               /\ Ok(op)

--------------------------------------------------------------------------
(* The chart: the account handlers called with any ids 0..MaxAccounts,     *)
(* beside a journal whose lines give accounts transaction records.         *)

\* largest number of account rows ever inserted, the first account included
MaxAccounts == 2
\* largest number of detail rows ever inserted beside the chart
MaxRecords == 1

AccountIds == 0..MaxAccounts

AccountKodes == {"A" \o ToString(i) : i \in 1..MaxAccounts}

CreateAccount ==
    /\ account_seq <= MaxAccounts
    /\ \E k \in AccountKodes, p \in AccountIds \cup {NULL} :
          createAccount([kode |-> k, parent_id |-> p])

UpdateAccount ==
    \E id \in AccountIds :
        \/ \E p \in AccountIds \cup {NULL} : updateAccount(id, [parent_id |-> p])
        \/ \E k \in AccountKodes : updateAccount(id, [kode |-> k])

ChartDeleteAccount == \E id \in AccountIds : deleteAccount(id)

ChartCreateTransactionHeader ==
    /\ HeaderRoom
    /\ createTransactionHeader([nomor_transaksi |-> Nomor("A", <<>>),
                                tanggal |-> [year |-> 2023, month |-> 12],
                                tipe |-> "JURNAL_UMUM", relation_id |-> NULL, user_id |-> 1])

ChartAddTransactionDetail ==
    /\ detail_seq <= MaxRecords
    /\ \E id \in 1..MaxHeaders, a \in AccountIds :
          addTransactionDetail([header_id |-> id, account_id |-> a, debit |-> 0, kredit |-> 0])

NextChart ==
    \/ CreateAccount
    \/ UpdateAccount
    \/ ChartDeleteAccount
    \/ ChartCreateTransactionHeader
    \/ ChartAddTransactionDetail

SpecChart == Init /\ [][NextChart]_vars

RECURSIVE Climb(_, _)
\* the account n parent links above account a, NULL once the chain has ended
Climb(a, n) ==
    IF n = 0 THEN a
    ELSE LET b == Climb(a, n - 1)
         IN IF b \in DOMAIN accounts THEN accounts[b].parent_id ELSE NULL

\* C12: the parent_id links contain no cycle: no account is its own ancestor.
C12_NoCycle ==
    \A a \in DOMAIN accounts :
        \A n \in 1..Cardinality(DOMAIN accounts) : Climb(a, n) # a

\* C13: every account's parent_id is null or the id of an existing account.
C13_ParentExists ==
    \A a \in DOMAIN accounts :
        accounts[a].parent_id = NULL \/ accounts[a].parent_id \in DOMAIN accounts

\* C14: deleteAccount(id) throws and leaves the accounts as they were when the
\* account does not exist, when an account has it as parent, or when a detail
\* row is on it; otherwise it removes that account, leaves every other account
\* row as it was, and returns true.
C14_DeleteAccount ==
    [][ \A id \in AccountIds :
          (result'.op = "deleteAccount" /\ deleteAccount(id)) =>
          IF \/ id \notin DOMAIN accounts
             \/ \E a \in DOMAIN accounts : accounts[a].parent_id = id
             \/ \E d \in DOMAIN details : details[d].account_id = id
          THEN result'.err # "ok" /\ accounts' = accounts
          ELSE /\ result'.err = "ok" /\ result'.ret
               /\ DOMAIN accounts' = DOMAIN accounts \ {id}
               /\ \A a \in DOMAIN accounts' : accounts'[a] = accounts[a]
      ]_vars

\* C14 witness: deleteAccount refused an existing account without children
\* because a detail row is on it.
C14_Witness ==
    /\ result = Outcome("deleteAccount", "Cannot delete account that has transaction records")
    /\ \E d \in DOMAIN details :
          /\ details[d].account_id \in DOMAIN accounts
          /\ \A a \in DOMAIN accounts : accounts[a].parent_id # details[d].account_id

\* C14 witness of the child case: deleteAccount refused a parent account.
C14_WitnessChild ==
    /\ result = Outcome("deleteAccount", "Cannot delete account that has child accounts")
    /\ \E a \in DOMAIN accounts : accounts[a].parent_id \in DOMAIN accounts

\* C14 witness of the deletion: deleteAccount removed one of two accounts and
\* the other is still there.
C14_WitnessDeleted ==
    /\ result = Outcome("deleteAccount", "ok")
    /\ Cardinality(DOMAIN accounts) = 1
    /\ account_seq = 3

--------------------------------------------------------------------------
(* Users *)

\* C15: deleteUser(id) never removes a user row; for an id without a row it
\* returns false and changes nothing; for a user some header refers to it
\* throws and leaves the users as they were; for any other user it sets
\* is_active to false and returns true.
C15_DeleteUser ==
    [][ \A id \in Ids :
          (result'.op = "deleteUser" /\ deleteUser(id)) =>
          /\ DOMAIN users' = DOMAIN users
          /\ IF id \notin DOMAIN users
             THEN result'.err = "ok" /\ ~result'.ret /\ users' = users
             ELSE IF \E h \in DOMAIN headers : headers[h].user_id = id
             THEN result'.err # "ok" /\ users' = users
             ELSE /\ result'.err = "ok" /\ result'.ret
                  /\ users' = [users EXCEPT ![id].is_active = FALSE]
      ]_vars

--------------------------------------------------------------------------
(* Inventory groups and inventory items (handlers/inventory.ts) *)

\* what the inventory handlers leave alone
besideInventory ==
    <<users, relations, accounts, headers, details, header_seq, detail_seq, generated,
      account_seq, companyTables, calls>>

\* getInventoryGroupById(id) !== null
getInventoryGroupById(id) == id \in DOMAIN inventory_groups

createInventoryGroup(input) ==
    LET op == "createInventoryGroup"
    IN /\ UNCHANGED besideInventory
       /\ IF KodeTaken(inventory_groups, input.kode, 0)
          THEN Throw(op, "duplicate key value violates unique constraint")
          ELSE /\ inventory_groups' = inventory_groups @@ (group_seq :> [kode |-> input.kode])
               /\ group_seq' = group_seq + 1
               /\ UNCHANGED <<inventory, inventory_seq>>
               /\ Ok(op)

\* deleteInventoryGroup without the count of the group's inventory items
deleteInventoryGroup_NoItemCheck(id) ==
    LET op == "deleteInventoryGroup"
    IN /\ UNCHANGED besideInventory
       /\ inventory_groups' = Without(inventory_groups, {id})
       /\ UNCHANGED <<group_seq, inventory, inventory_seq>>
       /\ result' = IF id \in DOMAIN inventory_groups THEN Outcome(op, "ok")
                    ELSE ReturnsFalse(op)

deleteInventoryGroup(id) ==
    LET op == "deleteInventoryGroup"
    IN /\ UNCHANGED besideInventory
       /\ IF \E i \in DOMAIN inventory : inventory[i].kelompok_id = id
          THEN Throw(op, "Cannot delete inventory group: it has inventory items")
          ELSE /\ inventory_groups' = Without(inventory_groups, {id})
               /\ UNCHANGED <<group_seq, inventory, inventory_seq>>
               /\ result' = IF id \in DOMAIN inventory_groups THEN Outcome(op, "ok")
                            ELSE ReturnsFalse(op)

createInventory(input) ==
    LET op == "createInventory"
    IN /\ UNCHANGED besideInventory
       /\ IF ~getInventoryGroupById(input.kelompok_id)
          THEN Throw(op, "Inventory group does not exist")
          ELSE IF KodeTaken(inventory, input.kode, 0)
          THEN Throw(op, "duplicate key value violates unique constraint")
          ELSE /\ inventory' = inventory @@
                     (inventory_seq :> [kode |-> input.kode, kelompok_id |-> input.kelompok_id])
               /\ inventory_seq' = inventory_seq + 1
               /\ UNCHANGED <<inventory_groups, group_seq>>
               /\ Ok(op)

updateInventory(id, input) ==
    LET op == "updateInventory"
        updated == SetKeys(inventory[id], input, {"kode", "kelompok_id"})
    IN /\ UNCHANGED besideInventory
       /\ IF Has(input, "kelompok_id") /\ ~getInventoryGroupById(input.kelompok_id)
          THEN Throw(op, "Inventory group does not exist")
          ELSE IF id \notin DOMAIN inventory
          THEN Throw(op, "Inventory item not found")
          ELSE IF KodeTaken(inventory, updated.kode, id)
          THEN Throw(op, "duplicate key value violates unique constraint")
          ELSE /\ inventory' = [inventory EXCEPT ![id] = updated]
               /\ UNCHANGED <<inventory_groups, group_seq, inventory_seq>>
               /\ Ok(op)

deleteInventory(id) ==
    LET op == "deleteInventory"
    IN /\ UNCHANGED besideInventory
       /\ inventory' = Without(inventory, {id})
       /\ UNCHANGED <<inventory_groups, group_seq, inventory_seq>>
       /\ result' = IF id \in DOMAIN inventory THEN Outcome(op, "ok") ELSE ReturnsFalse(op)

--------------------------------------------------------------------------
(* The stock room: the inventory handlers called with any group ids        *)
(* 0..MaxGroups and item ids 0..MaxItems.                                  *)

\* largest number of inventory group rows ever inserted
MaxGroups == 2
\* largest number of inventory item rows ever inserted
MaxItems == 1

GroupIds == 0..MaxGroups
ItemIds == 0..MaxItems

GroupKodes == {"G" \o ToString(i) : i \in 1..MaxGroups}
ItemKodes == {"I" \o ToString(i) : i \in 1..MaxItems}

CreateInventoryGroup ==
    /\ group_seq <= MaxGroups
    /\ \E k \in GroupKodes : createInventoryGroup([kode |-> k])

DeleteInventoryGroup == \E id \in GroupIds : deleteInventoryGroup(id)

CreateInventory ==
    /\ inventory_seq <= MaxItems
    /\ \E k \in ItemKodes, g \in GroupIds : createInventory([kode |-> k, kelompok_id |-> g])

UpdateInventory ==
    \E id \in ItemIds :
        \/ \E g \in GroupIds : updateInventory(id, [kelompok_id |-> g])
        \/ \E k \in ItemKodes : updateInventory(id, [kode |-> k])

DeleteInventory == \E id \in ItemIds : deleteInventory(id)

NextInventory ==
    \/ CreateInventoryGroup
    \/ DeleteInventoryGroup
    \/ CreateInventory
    \/ UpdateInventory
    \/ DeleteInventory

SpecInventory == Init /\ [][NextInventory]_vars

\* every inventory item's kelompok_id is the id of an existing group
KelompokExists ==
    \A i \in DOMAIN inventory : inventory[i].kelompok_id \in DOMAIN inventory_groups

\* the step threw this error and wrote no group row and no item row
Refused(err) ==
    /\ result'.err = err
    /\ inventory_groups' = inventory_groups
    /\ inventory' = inventory

\* C16: after every step every inventory item's kelompok_id is the id of an
\* existing inventory group; createInventory and updateInventory naming a
\* group that does not exist throw 'does not exist' and write nothing, and
\* deleteInventoryGroup on a group that an item refers to throws 'has inventory
\* items' and writes nothing.
C16_KelompokExists ==
    [][ /\ KelompokExists'
        /\ \A g \in GroupIds \ DOMAIN inventory_groups :
              /\ \A k \in ItemKodes :
                    (/\ result'.op = "createInventory"
                     /\ createInventory([kode |-> k, kelompok_id |-> g]))
                    => Refused("Inventory group does not exist")
              /\ \A id \in ItemIds :
                    (/\ result'.op = "updateInventory"
                     /\ updateInventory(id, [kelompok_id |-> g]))
                    => Refused("Inventory group does not exist")
        /\ \A g \in GroupIds :
              (/\ \E i \in DOMAIN inventory : inventory[i].kelompok_id = g
               /\ result'.op = "deleteInventoryGroup"
               /\ deleteInventoryGroup(g))
              => Refused("Cannot delete inventory group: it has inventory items")
      ]_vars

\* C16 witness: deleteInventoryGroup was refused for a group that has an item,
\* while another group has been deleted.
C16_Witness ==
    /\ result = Outcome("deleteInventoryGroup",
                        "Cannot delete inventory group: it has inventory items")
    /\ inventory # <<>>
    /\ Cardinality(DOMAIN inventory_groups) < group_seq - 1

\* C16 witness of the update: updateInventory was refused a group that has
\* been deleted.
C16_WitnessUpdate ==
    /\ result = Outcome("updateInventory", "Inventory group does not exist")
    /\ inventory # <<>>
    /\ Cardinality(DOMAIN inventory_groups) < group_seq - 1

--------------------------------------------------------------------------
(* Companies (handlers/companies.ts) *)

\* what the company handlers leave alone
besideCompanies ==
    <<users, relations, accounts, headers, details, header_seq, detail_seq, generated,
      account_seq, inventoryTables, calls>>

\* getCompanyById(id) !== null
getCompanyById(id) == id \in DOMAIN companies

createCompany(input) ==
    /\ UNCHANGED besideCompanies
    /\ companies' = companies @@
          (company_seq :> [nama |-> input.nama, telepon |-> input.telepon])
    /\ company_seq' = company_seq + 1
    /\ Ok("createCompany")

updateCompany(id, input) ==
    LET op == "updateCompany"
    IN /\ UNCHANGED besideCompanies
       /\ IF ~getCompanyById(id)
          THEN Throw(op, "Company not found")
          ELSE /\ companies' = [companies EXCEPT
                                  ![id] = SetKeys(companies[id], input, {"nama", "telepon"})]
               /\ UNCHANGED company_seq
               /\ Ok(op)

\* deleteCompany with a delete that has lost its where clause
deleteCompany_NoWhere(id) ==
    LET op == "deleteCompany"
    IN /\ UNCHANGED besideCompanies
       /\ UNCHANGED company_seq
       /\ IF ~getCompanyById(id)
          THEN /\ result' = ReturnsFalse(op)
               /\ UNCHANGED companies
          ELSE /\ companies' = <<>>
               /\ Ok(op)

deleteCompany(id) ==
    LET op == "deleteCompany"
    IN /\ UNCHANGED besideCompanies
       /\ UNCHANGED company_seq
       /\ IF ~getCompanyById(id)
          THEN /\ result' = ReturnsFalse(op)
               /\ UNCHANGED companies
          ELSE /\ companies' = Without(companies, {id})
               /\ Ok(op)

--------------------------------------------------------------------------
(* The register: the company handlers called with any ids 0..MaxCompanies. *)

\* largest number of company rows ever inserted
MaxCompanies == 2

CompanyIds == 0..MaxCompanies

CompanyInputs == [nama : {"PT Satu", "PT Dua"}, telepon : {"021", "022"}]

\* a Partial<CreateCompanyInput> with one key
CompanyUpdates ==
    {[nama |-> c.nama] : c \in CompanyInputs} \cup {[telepon |-> c.telepon] : c \in CompanyInputs}

CreateCompany ==
    /\ company_seq <= MaxCompanies
    /\ \E c \in CompanyInputs : createCompany(c)

UpdateCompany == \E id \in CompanyIds, u \in CompanyUpdates : updateCompany(id, u)

DeleteCompany == \E id \in CompanyIds : deleteCompany(id)

NextCompanies ==
    \/ CreateCompany
    \/ UpdateCompany
    \/ DeleteCompany

SpecCompanies == Init /\ [][NextCompanies]_vars

\* C17: deleteCompany(id) on an existing company removes that row, leaves
\* every other company row as it was and returns true; on an id without a row
\* it returns false and changes nothing; updateCompany on an id without a row
\* throws 'Company with id <id> not found' and changes nothing.
C17_DeleteCompany ==
    [][ \A id \in CompanyIds :
          /\ (result'.op = "deleteCompany" /\ deleteCompany(id)) =>
                IF id \in DOMAIN companies
                THEN /\ result'.err = "ok" /\ result'.ret
                     /\ DOMAIN companies' = DOMAIN companies \ {id}
                     /\ \A c \in DOMAIN companies' : companies'[c] = companies[c]
                ELSE /\ result'.err = "ok" /\ ~result'.ret
                     /\ companies' = companies
          /\ \A u \in CompanyUpdates :
                (/\ id \notin DOMAIN companies
                 /\ result'.op = "updateCompany"
                 /\ updateCompany(id, u))
                => result'.err = "Company not found" /\ companies' = companies
      ]_vars

\* C17 witness: deleteCompany returned true having removed one of two
\* companies, and the other is still there.
C17_Witness ==
    /\ result = Outcome("deleteCompany", "ok")
    /\ company_seq = 3
    /\ Cardinality(DOMAIN companies) = 1

\* C17 witness of the other cases: deleteCompany returned false, and
\* updateCompany threw, with a company in the table.
C17_WitnessMissing ==
    /\ companies # <<>>
    /\ \/ result = ReturnsFalse("deleteCompany")
       \/ result = Outcome("updateCompany", "Company not found")

--------------------------------------------------------------------------
(* Interleaving.  A handler awaits each database statement; no handler     *)
(* opens a database transaction, so between two statements of one call the *)
(* statements of another call can run.  Each action below is one statement *)
(* of a call on connection p, with the JavaScript up to the next await.    *)

\* what the statements of the detail and posting handlers leave alone
besideJournal ==
    <<users, relations, accounts, generated, account_seq, companyTables, inventoryTables>>

\* the call on connection p goes on to its next statement
Goto(p, call) == calls' = [calls EXCEPT ![p] = call] /\ UNCHANGED result

\* the call on connection p returns or throws
Return(p, outcome) == calls' = [calls EXCEPT ![p] = Idle] /\ result' = outcome

\* addTransactionDetail, first statement: select the header
addSelectHeader(p, input) ==
    LET op == "addTransactionDetail"
    IN /\ calls[p] = Idle
       /\ UNCHANGED <<besideJournal, headers, details, header_seq, detail_seq>>
       /\ IF input.header_id \notin DOMAIN headers
          THEN Return(p, Outcome(op, "Transaction header not found"))
          ELSE IF headers[input.header_id].is_posted
          THEN Return(p, Outcome(op, "Cannot add detail to posted transaction"))
          ELSE Goto(p, [Idle EXCEPT !.op = op, !.pc = "account", !.input = input,
                                    !.headerId = input.header_id])

\* addTransactionDetail, second statement: select the account
addSelectAccount(p) ==
    /\ calls[p].op = "addTransactionDetail" /\ calls[p].pc = "account"
    /\ UNCHANGED <<besideJournal, headers, details, header_seq, detail_seq>>
    /\ IF calls[p].input.account_id \notin DOMAIN accounts
       THEN Return(p, Outcome(calls[p].op, "Account not found"))
       ELSE Goto(p, [calls[p] EXCEPT !.pc = "insert"])

\* addTransactionDetail, third statement: insert the detail
addInsert(p) ==
    /\ calls[p].op = "addTransactionDetail" /\ calls[p].pc = "insert"
    /\ UNCHANGED <<besideJournal, headers, header_seq>>
    /\ details' = details @@ (detail_seq :> DetailRow(calls[p].input.header_id, calls[p].input))
    /\ detail_seq' = detail_seq + 1
    /\ Goto(p, [calls[p] EXCEPT !.pc = "totals"])

\* updateTransactionDetail and deleteTransactionDetail, first statement: select
\* the detail joined with its header
selectDetail(p, op, id, input) ==
    /\ calls[p] = Idle
    /\ UNCHANGED <<besideJournal, headers, details, header_seq, detail_seq>>
    /\ IF ~Joined(id)
       THEN Return(p, Outcome(op, "Transaction detail not found"))
       ELSE IF headers[details[id].header_id].is_posted
       THEN Return(p, Outcome(op, IF op = "updateTransactionDetail"
                                  THEN "Cannot update detail of posted transaction"
                                  ELSE "Cannot delete detail from posted transaction"))
       ELSE Goto(p, [Idle EXCEPT !.op = op, !.id = id, !.input = input,
                                 !.headerId = details[id].header_id,
                                 !.pc = IF op = "deleteTransactionDetail" THEN "delete"
                                        ELSE IF Has(input, "account_id") /\ Truthy(input.account_id)
                                        THEN "account"
                                        ELSE "update"])

\* updateTransactionDetail, the statement under if (input.account_id): select
\* the account
updateSelectAccount(p) ==
    /\ calls[p].op = "updateTransactionDetail" /\ calls[p].pc = "account"
    /\ UNCHANGED <<besideJournal, headers, details, header_seq, detail_seq>>
    /\ IF calls[p].input.account_id \notin DOMAIN accounts
       THEN Return(p, Outcome(calls[p].op, "Account not found"))
       ELSE Goto(p, [calls[p] EXCEPT !.pc = "update"])

\* updateTransactionDetail: update the detail row, if it is still there
updateSet(p) ==
    LET id == calls[p].id
    IN /\ calls[p].op = "updateTransactionDetail" /\ calls[p].pc = "update"
       /\ UNCHANGED <<besideJournal, headers, header_seq, detail_seq>>
       /\ details' = IF id \in DOMAIN details
                     THEN [details EXCEPT ![id] = SetDetail(details[id], calls[p].input)]
                     ELSE details
       /\ Goto(p, [calls[p] EXCEPT !.pc = "totals", !.found = id \in DOMAIN details])

\* deleteTransactionDetail: delete the detail row
deleteDelete(p) ==
    /\ calls[p].op = "deleteTransactionDetail" /\ calls[p].pc = "delete"
    /\ UNCHANGED <<besideJournal, headers, header_seq, detail_seq>>
    /\ details' = Without(details, {calls[p].id})
    /\ Goto(p, [calls[p] EXCEPT !.pc = "totals"])

\* updateHeaderTotals, first statement: select the details and sum them
totalsSelect(p) ==
    LET rows == DetailsOf(details, calls[p].headerId)
    IN /\ calls[p].pc = "totals"
       /\ UNCHANGED <<besideJournal, headers, details, header_seq, detail_seq>>
       /\ Goto(p, [calls[p] EXCEPT !.pc = "write",
                                   !.totalDebit = SumRows(details, rows, "debit"),
                                   !.totalKredit = SumRows(details, rows, "kredit")])

\* updateHeaderTotals, second statement: update the header with the sums, after
\* which the handler returns (updateTransactionDetail throws a TypeError on
\* result[0] when its update found no row)
totalsUpdate(p) ==
    LET headerId == calls[p].headerId
    IN /\ calls[p].pc = "write"
       /\ UNCHANGED <<besideJournal, details, header_seq, detail_seq>>
       /\ headers' = IF headerId \in DOMAIN headers
                     THEN [headers EXCEPT
                             ![headerId].total_debit = ToNumeric(calls[p].totalDebit),
                             ![headerId].total_kredit = ToNumeric(calls[p].totalKredit)]
                     ELSE headers
       /\ Return(p, Outcome(calls[p].op, IF calls[p].found THEN "ok" ELSE "TypeError"))

\* postTransaction, first statement: validateTransactionBalance selects the
\* details
postValidate(p, id) ==
    LET op == "postTransaction"
    IN /\ calls[p] = Idle
       /\ UNCHANGED <<besideJournal, headers, details, header_seq, detail_seq>>
       /\ IF ~validateTransactionBalance(details, id)
          THEN Return(p, Outcome(op, "Transaction is not balanced"))
          ELSE Goto(p, [Idle EXCEPT !.op = op, !.pc = "post", !.id = id])

\* postTransaction, second statement: set is_posted
postUpdate(p) ==
    LET id == calls[p].id
    IN /\ calls[p].op = "postTransaction" /\ calls[p].pc = "post"
       /\ UNCHANGED <<besideJournal, details, header_seq, detail_seq>>
       /\ IF id \notin DOMAIN headers
          THEN /\ UNCHANGED headers
               /\ Return(p, Outcome(calls[p].op, "Transaction not found"))
          ELSE /\ headers' = [headers EXCEPT ![id].is_posted = TRUE]
               /\ Return(p, Outcome(calls[p].op, "ok"))

--------------------------------------------------------------------------
(* The race: one balanced transaction of a one-cent debit line and a       *)
(* one-cent credit line is created, then calls of addTransactionDetail     *)
(* (a one-cent debit line), updateTransactionDetail (which makes the line  *)
(* a one-cent credit line), deleteTransactionDetail and postTransaction    *)
(* run on two connections, a statement at a time.  All amounts are whole   *)
(* cents.                                                                  *)

\* largest number of detail rows ever inserted in the race
MaxRaceDetails == 3

RaceCreateCompleteTransaction ==
    /\ HeaderRoom
    /\ createCompleteTransaction(
          [header |-> [nomor_transaksi |-> Nomor("A", <<>>),
                       tanggal |-> [year |-> 2023, month |-> 12], tipe |-> "JURNAL_UMUM",
                       relation_id |-> NULL, user_id |-> 1],
           details |-> <<[account_id |-> 1, debit |-> Cent, kredit |-> 0],
                         [account_id |-> 1, debit |-> 0, kredit |-> Cent]>>])

RaceAddSelectHeader ==
    /\ detail_seq <= MaxRaceDetails
    /\ \E p \in Procs, id \in 1..MaxHeaders :
          addSelectHeader(p, [header_id |-> id, account_id |-> 1,
                              debit |-> Cent, kredit |-> 0])

RaceAddSelectAccount == \E p \in Procs : addSelectAccount(p)

RaceAddInsert == \E p \in Procs : addInsert(p)

RaceUpdateSelectDetail ==
    \E p \in Procs, id \in 1..MaxRaceDetails :
        selectDetail(p, "updateTransactionDetail", id,
                     [account_id |-> 1, debit |-> 0, kredit |-> Cent])

RaceUpdateSelectAccount == \E p \in Procs : updateSelectAccount(p)

RaceUpdateSet == \E p \in Procs : updateSet(p)

RaceDeleteSelectDetail ==
    \E p \in Procs, id \in 1..MaxRaceDetails :
        selectDetail(p, "deleteTransactionDetail", id, Idle.input)

RaceDeleteDelete == \E p \in Procs : deleteDelete(p)

RaceTotalsSelect == \E p \in Procs : totalsSelect(p)

RaceTotalsUpdate == \E p \in Procs : totalsUpdate(p)

RacePostValidate == \E p \in Procs, id \in 1..MaxHeaders : postValidate(p, id)

RacePostUpdate == \E p \in Procs : postUpdate(p)

NextRace ==
    \/ RaceCreateCompleteTransaction
    \/ RaceAddSelectHeader
    \/ RaceAddSelectAccount
    \/ RaceAddInsert
    \/ RaceUpdateSelectDetail
    \/ RaceUpdateSelectAccount
    \/ RaceUpdateSet
    \/ RaceDeleteSelectDetail
    \/ RaceDeleteDelete
    \/ RaceTotalsSelect
    \/ RaceTotalsUpdate
    \/ RacePostValidate
    \/ RacePostUpdate

SpecRace == Init /\ [][NextRace]_vars

\* C18: with calls interleaving at their statements, no header has is_posted
\* set while the debit sum of its detail rows differs from their kredit sum.
C18_PostedBalancedUnderRace ==
    \A id \in DOMAIN headers :
        headers[id].is_posted =>
            SumRows(details, DetailsOf(details, id), "debit")
              = SumRows(details, DetailsOf(details, id), "kredit")

\* C19: whenever no call is in flight, every header's total_debit and
\* total_kredit are the sums over its current detail rows.
C19_TotalsAfterRace ==
    (\A p \in Procs : calls[p] = Idle) =>
        \A id \in DOMAIN headers :
            /\ headers[id].total_debit = DebitOf(id)
            /\ headers[id].total_kredit = KreditOf(id)

====
